---------------------------- MODULE Spec2Model ----------------------------
(***************************************************************************)
(* show_ansi_colors (ansi_colors_v2.py): a straight-line routine that      *)
(* builds two ordered name -> code tables and a list of combination pairs  *)
(* and prints a reference chart of ANSI SGR escape sequences.              *)
(*                                                                         *)
(* A Python string is modelled as a sequence of one-character strings.     *)
(* The control byte 27 (written '\033' in a Python literal) is the single  *)
(* element ESC; the two-character source text '\\033' is the four          *)
(* elements backslash, "0", "3", "3".  stdout is the sequence of strings   *)
(* written by the print statements, each with its terminating newline.     *)
(***************************************************************************)
EXTENDS Integers, Sequences, FiniteSets

\* Number of times show_ansi_colors() is invoked in one process.
MaxCalls == 3

\* The escape character, '\033' (one byte, value 27).
ESC == "ESC"

\* The newline print() appends to every string it writes.
NL == "\n"

\* "c" * n
Rep(c, n) == [k \in 1..n |-> c]

\* str.ljust(n): pad with spaces on the right up to n characters; a string
\* of n characters or more is returned unchanged.
LJust(s, n) == IF Len(s) >= n THEN s ELSE s \o Rep(" ", n - Len(s))

\* fg_colors: the dict literal, in insertion order, as (key, value) pairs.
FgColors ==
  <<
    << <<"B","l","a","c","k">>, <<"3","0">> >>,
    << <<"R","e","d">>, <<"3","1">> >>,
    << <<"G","r","e","e","n">>, <<"3","2">> >>,
    << <<"Y","e","l","l","o","w">>, <<"3","3">> >>,
    << <<"B","l","u","e">>, <<"3","4">> >>,
    << <<"M","a","g","e","n","t","a">>, <<"3","5">> >>,
    << <<"C","y","a","n">>, <<"3","6">> >>,
    << <<"W","h","i","t","e">>, <<"3","7">> >>,
    << <<"B","r","i","g","h","t"," ","B","l","a","c","k">>, <<"9","0">> >>,
    << <<"B","r","i","g","h","t"," ","R","e","d">>, <<"9","1">> >>,
    << <<"B","r","i","g","h","t"," ","G","r","e","e","n">>, <<"9","2">> >>,
    << <<"B","r","i","g","h","t"," ","Y","e","l","l","o","w">>, <<"9","3">> >>,
    << <<"B","r","i","g","h","t"," ","B","l","u","e">>, <<"9","4">> >>,
    << <<"B","r","i","g","h","t"," ","M","a","g","e","n","t","a">>, <<"9","5">> >>,
    << <<"B","r","i","g","h","t"," ","C","y","a","n">>, <<"9","6">> >>,
    << <<"B","r","i","g","h","t"," ","W","h","i","t","e">>, <<"9","7">> >>
  >>

\* bg_colors: the dict literal, in insertion order.
BgColors ==
  <<
    << <<"B","l","a","c","k">>, <<"4","0">> >>,
    << <<"R","e","d">>, <<"4","1">> >>,
    << <<"G","r","e","e","n">>, <<"4","2">> >>,
    << <<"Y","e","l","l","o","w">>, <<"4","3">> >>,
    << <<"B","l","u","e">>, <<"4","4">> >>,
    << <<"M","a","g","e","n","t","a">>, <<"4","5">> >>,
    << <<"C","y","a","n">>, <<"4","6">> >>,
    << <<"W","h","i","t","e">>, <<"4","7">> >>,
    << <<"B","r","i","g","h","t"," ","B","l","a","c","k">>, <<"1","0","0">> >>,
    << <<"B","r","i","g","h","t"," ","R","e","d">>, <<"1","0","1">> >>,
    << <<"B","r","i","g","h","t"," ","G","r","e","e","n">>, <<"1","0","2">> >>,
    << <<"B","r","i","g","h","t"," ","Y","e","l","l","o","w">>, <<"1","0","3">> >>,
    << <<"B","r","i","g","h","t"," ","B","l","u","e">>, <<"1","0","4">> >>,
    << <<"B","r","i","g","h","t"," ","M","a","g","e","n","t","a">>, <<"1","0","5">> >>,
    << <<"B","r","i","g","h","t"," ","C","y","a","n">>, <<"1","0","6">> >>,
    << <<"B","r","i","g","h","t"," ","W","h","i","t","e">>, <<"1","0","7">> >>
  >>

\* combinations: the list of (fg_name, bg_name) tuples.
Combinations ==
  <<
    << <<"B","r","i","g","h","t"," ","W","h","i","t","e">>, <<"B","l","u","e">> >>,
    << <<"Y","e","l","l","o","w">>, <<"B","r","i","g","h","t"," ","B","l","a","c","k">> >>,
    << <<"B","r","i","g","h","t"," ","C","y","a","n">>, <<"M","a","g","e","n","t","a">> >>,
    << <<"B","r","i","g","h","t"," ","R","e","d">>, <<"B","r","i","g","h","t"," ","Y","e","l","l","o","w">> >>,
    << <<"B","l","a","c","k">>, <<"B","r","i","g","h","t"," ","W","h","i","t","e">> >>
  >>

\* Mutation of Items: the pairs are visited last to first.
ItemsReversed(d) == [k \in 1..Len(d) |-> d[Len(d) + 1 - k]]

\* dict.items() of a table: the (key, value) pairs in insertion order.
Items(d) == d

\* key in d
HasKey(d, key) == \E k \in 1..Len(d) : d[k][1] = key

\* d[key], defined when HasKey(d, key)
Lookup(d, key) == d[CHOOSE k \in 1..Len(d) : d[k][1] = key][2]

\* The list literal of line 69: background codes that get white text.
DarkCodes ==
  { <<"4","0">>, <<"4","1">>, <<"4","2">>, <<"4","3">>, <<"4","4">>,
    <<"4","5">>, <<"4","6">>, <<"1","0","0">> }

\* Mutation of TextColor: the list of dark codes lacks '100'.
TextColorWithout100(code) ==
  IF code \in DarkCodes \ { <<"1","0","0">> } THEN <<"9","7">> ELSE <<"3","0">>

\* text_color = '97' if code in [...] else '30'
TextColor(code) == IF code \in DarkCodes THEN <<"9","7">> ELSE <<"3","0">>

\* f'\033[{params}m': a real SGR control sequence.
Sgr(params) == <<ESC, "[">> \o params \o <<"m">>

\* The literal '\033[0m' that ends every styled string.
ResetSeq == <<ESC, "[", "0", "m">>

\* Mutation of AnsiSeq: '\033' for '\\033', the control byte itself.
AnsiSeqControlByte(code) == <<ESC, "[">> \o code \o <<"m">>

\* ansi_seq = f'\\033[{code}m': the readable text of a sequence.
AnsiSeq(code) == <<"\\","0","3","3","[">> \o code \o <<"m">>

\* The literal " Example text" that ends every row.
ExampleText == <<" ","E","x","a","m","p","l","e"," ","t","e","x","t">>

\* Mutation of FgColoredText: the closing '\033[0m' is missing.
FgColoredTextNoReset(name, code) == Sgr(code) \o LJust(name, 15)

\* Foreground row: colored_text, then f"{colored_text} {ansi_seq.ljust(10)} Example text".
FgColoredText(name, code) == Sgr(code) \o LJust(name, 15) \o ResetSeq

FgLine(name, code) ==
  FgColoredText(name, code) \o <<" ">> \o LJust(AnsiSeq(code), 10) \o ExampleText

\* Background row: colored_bg, then f"{colored_bg} {ansi_seq.ljust(10)} Example text".
BgColored(name, code) ==
  Sgr(TextColor(code)) \o Sgr(code) \o LJust(name, 15) \o ResetSeq

BgLine(name, code) ==
  BgColored(name, code) \o <<" ">> \o LJust(AnsiSeq(code), 10) \o ExampleText

\* Combination row.  ansi_seq = f'\\033[{fg_code};{bg_code}m'
CombAnsiSeq(fg_code, bg_code) ==
  <<"\\","0","3","3","[">> \o fg_code \o <<";">> \o bg_code \o <<"m">>

\* Mutation of CombLabel: the whole label is padded, not the background name.
CombLabelPaddedWhole(fg_name, bg_name) ==
  LJust(fg_name \o <<" ","o","n"," ">> \o bg_name, 25)

\* fg_name + " on " + bg_name.ljust(25): the method call binds tighter than
\* +, so only bg_name is padded.
CombLabel(fg_name, bg_name) ==
  fg_name \o <<" ","o","n"," ">> \o LJust(bg_name, 25)

\* Mutation of CombColoredText: the two codes are joined in the wrong order.
CombColoredTextSwapped(fg_name, bg_name, fg_code, bg_code) ==
  Sgr(bg_code \o <<";">> \o fg_code) \o CombLabel(fg_name, bg_name) \o ResetSeq

CombColoredText(fg_name, bg_name, fg_code, bg_code) ==
  Sgr(fg_code \o <<";">> \o bg_code) \o CombLabel(fg_name, bg_name) \o ResetSeq

CombLine(fg_name, bg_name, fg_code, bg_code) ==
  CombColoredText(fg_name, bg_name, fg_code, bg_code) \o <<" ">>
    \o LJust(CombAnsiSeq(fg_code, bg_code), 15) \o ExampleText

\* The fixed strings of the chart.
Banner == Rep("=", 80)

Rule == Rep("-", 40)

Title == <<"A","N","S","I"," ","C","O","L","O","R"," ","C","O","D","E","M","A","P">>

FgHeader == <<"\n","F","O","R","E","G","R","O","U","N","D"," ","C","O","L","O","R","S",":">>

BgHeader == <<"\n","B","A","C","K","G","R","O","U","N","D"," ","C","O","L","O","R","S",":">>

CombHeader == <<"\n","C","O","M","B","I","N","A","T","I","O","N","S"," ","(","F","o","r","e","g","r","o","u","n","d"," ","+"," ","B","a","c","k","g","r","o","u","n","d",")",":">>

UsageHeader == <<"\n","U","S","A","G","E"," ","N","O","T","E","S",":">>

Note1 == <<"1","."," ","A","l","l"," ","A","N","S","I"," ","s","e","q","u","e","n","c","e","s"," ","s","t","a","r","t"," ","w","i","t","h"," ","\\","0","3","3","["," ","a","n","d"," ","e","n","d"," ","w","i","t","h"," ","m">>

Note2 == <<"2","."," ","S","e","p","a","r","a","t","e"," ","m","u","l","t","i","p","l","e"," ","c","o","d","e","s"," ","w","i","t","h"," ","s","e","m","i","c","o","l","o","n","s"," ","(","e",".","g",".",","," ","\\","0","3","3","[","3","1",";","4","4","m",")">>

Note3 == <<"3","."," ","R","e","s","e","t"," ","f","o","r","m","a","t","t","i","n","g"," ","w","i","t","h"," ","\\","0","3","3","[","0","m">>

-----------------------------------------------------------------------------
VARIABLES
  pc,            \* the statement the interpreter executes next
  calls,         \* invocations of show_ansi_colors started so far
  fg_colors,     \* local: the foreground dict (<<>> while unbound)
  bg_colors,     \* local: the background dict
  reset,         \* local: the reset string of line 48
  combinations,  \* local: the combination list
  idx,           \* position of the running for loop's iterator
  stdout,        \* every string written to standard output, in order
  starts         \* history: Len(stdout) at the entry of each invocation

vars == <<pc, calls, fg_colors, bg_colors, reset, combinations, idx, stdout, starts>>

locals == <<fg_colors, bg_colors, reset, combinations>>

\* print(s): one string and its newline are written to stdout.
Emit(s) == stdout' = Append(stdout, s \o <<NL>>)

\* A print statement outside the loops: write s and go to the next statement.
PrintAt(here, s, next) ==
  /\ pc = here
  /\ Emit(s)
  /\ pc' = next
  /\ UNCHANGED <<calls, locals, idx, starts>>

Init ==
  /\ pc = "idle"
  /\ calls = 0
  /\ fg_colors = <<>>
  /\ bg_colors = <<>>
  /\ reset = <<>>
  /\ combinations = <<>>
  /\ idx = 0
  /\ stdout = <<>>
  /\ starts = <<>>

\* Mutation of Call: the background dict holds '90' for 'Bright Black'.
CallWithWrongCode ==
  /\ pc = "idle"
  /\ calls < MaxCalls
  /\ calls' = calls + 1
  /\ fg_colors' = FgColors
  /\ bg_colors' = [BgColors EXCEPT ![9] = <<BgColors[9][1], <<"9","0">> >>]
  /\ reset' = ResetSeq
  /\ starts' = Append(starts, Len(stdout))
  /\ pc' = "banner"
  /\ UNCHANGED <<combinations, idx, stdout>>

\* show_ansi_colors() is called: lines 8-48 bind the two dicts and reset.
Call ==
  /\ pc = "idle"
  /\ calls < MaxCalls
  /\ calls' = calls + 1
  /\ fg_colors' = FgColors
  /\ bg_colors' = BgColors
  /\ reset' = ResetSeq
  /\ starts' = Append(starts, Len(stdout))
  /\ pc' = "banner"
  /\ UNCHANGED <<combinations, idx, stdout>>

\* Lines 50-54.
PrintBanner == PrintAt("banner", Banner, "title")

\* Mutation of PrintTitle: the title carries a mark per invocation so far.
PrintTitleCounted == PrintAt("title", Title \o Rep("'", calls), "title_rule")

PrintTitle == PrintAt("title", Title, "title_rule")

PrintTitleRule == PrintAt("title_rule", Banner, "fg_header")

PrintFgHeader == PrintAt("fg_header", FgHeader, "fg_rule")

PrintFgRule ==
  /\ pc = "fg_rule"
  /\ Emit(Rule)
  /\ pc' = "fg_loop"
  /\ idx' = 1
  /\ UNCHANGED <<calls, locals, starts>>

\* Lines 57-60: one iteration of the foreground loop.
FgRow ==
  /\ pc = "fg_loop"
  /\ idx <= Len(Items(fg_colors))
  /\ LET name == Items(fg_colors)[idx][1]
         code == Items(fg_colors)[idx][2]
     IN  Emit(FgLine(name, code))
  /\ idx' = idx + 1
  /\ UNCHANGED <<pc, calls, locals, starts>>

\* Mutation of PrintBgHeader: the loop can be left with one item unvisited.
PrintBgHeaderEarly ==
  /\ pc = "fg_loop"
  /\ idx >= Len(Items(fg_colors))
  /\ Emit(BgHeader)
  /\ pc' = "bg_rule"
  /\ UNCHANGED <<calls, locals, idx, starts>>

\* Line 62, reached when the foreground iterator is exhausted.
PrintBgHeader ==
  /\ pc = "fg_loop"
  /\ idx > Len(Items(fg_colors))
  /\ Emit(BgHeader)
  /\ pc' = "bg_rule"
  /\ UNCHANGED <<calls, locals, idx, starts>>

PrintBgRule ==
  /\ pc = "bg_rule"
  /\ Emit(Rule)
  /\ pc' = "bg_loop"
  /\ idx' = 1
  /\ UNCHANGED <<calls, locals, starts>>

\* Lines 66-71: one iteration of the background loop.
BgRow ==
  /\ pc = "bg_loop"
  /\ idx <= Len(Items(bg_colors))
  /\ LET name == Items(bg_colors)[idx][1]
         code == Items(bg_colors)[idx][2]
     IN  Emit(BgLine(name, code))
  /\ idx' = idx + 1
  /\ UNCHANGED <<pc, calls, locals, starts>>

\* Line 73, reached when the background iterator is exhausted.
PrintCombHeader ==
  /\ pc = "bg_loop"
  /\ idx > Len(Items(bg_colors))
  /\ Emit(CombHeader)
  /\ pc' = "comb_rule"
  /\ UNCHANGED <<calls, locals, idx, starts>>

PrintCombRule == PrintAt("comb_rule", Rule, "comb_list")

\* Lines 77-83: the combination list is bound.
BindCombinations ==
  /\ pc = "comb_list"
  /\ combinations' = Combinations
  /\ pc' = "comb_loop"
  /\ idx' = 1
  /\ UNCHANGED <<calls, fg_colors, bg_colors, reset, stdout, starts>>

\* Lines 85-90: one iteration of the combination loop.  A name missing from
\* its dict raises KeyError, which ends the call before anything is printed.
CombRow ==
  /\ pc = "comb_loop"
  /\ idx <= Len(combinations)
  /\ LET fg_name == combinations[idx][1]
         bg_name == combinations[idx][2]
     IN  IF HasKey(fg_colors, fg_name) /\ HasKey(bg_colors, bg_name)
         THEN /\ Emit(CombLine(fg_name, bg_name,
                                Lookup(fg_colors, fg_name),
                                Lookup(bg_colors, bg_name)))
              /\ idx' = idx + 1
              /\ pc' = pc
         ELSE /\ pc' = "KeyError"
              /\ UNCHANGED <<idx, stdout>>
  /\ UNCHANGED <<calls, locals, starts>>

\* Line 92, reached when the combination iterator is exhausted.
PrintUsageHeader ==
  /\ pc = "comb_loop"
  /\ idx > Len(combinations)
  /\ Emit(UsageHeader)
  /\ pc' = "usage_rule"
  /\ UNCHANGED <<calls, locals, idx, starts>>

\* Lines 93-97.
PrintUsageRule == PrintAt("usage_rule", Rule, "note1")

PrintNote1 == PrintAt("note1", Note1, "note2")

PrintNote2 == PrintAt("note2", Note2, "note3")

PrintNote3 == PrintAt("note3", Note3, "closing")

PrintClosingBanner == PrintAt("closing", Banner, "return")

\* The function returns: its locals are discarded.
Return ==
  /\ pc = "return"
  /\ pc' = "idle"
  /\ fg_colors' = <<>>
  /\ bg_colors' = <<>>
  /\ reset' = <<>>
  /\ combinations' = <<>>
  /\ idx' = 0
  /\ UNCHANGED <<calls, stdout, starts>>

Next ==
  \/ Call
  \/ PrintBanner
  \/ PrintTitle
  \/ PrintTitleRule
  \/ PrintFgHeader
  \/ PrintFgRule
  \/ FgRow
  \/ PrintBgHeader
  \/ PrintBgRule
  \/ BgRow
  \/ PrintCombHeader
  \/ PrintCombRule
  \/ BindCombinations
  \/ CombRow
  \/ PrintUsageHeader
  \/ PrintUsageRule
  \/ PrintNote1
  \/ PrintNote2
  \/ PrintNote3
  \/ PrintClosingBanner
  \/ Return

Spec == Init /\ [][Next]_vars

-----------------------------------------------------------------------------
(***************************************************************************)
(* Reading the output back.  The properties below are stated on what was   *)
(* written to stdout, as an ANSI terminal interprets it: ESC [ params m    *)
(* is a control sequence that changes the active styling and shows         *)
(* nothing; every other character is shown in the styling then active.     *)
(***************************************************************************)

Digits == {"0","1","2","3","4","5","6","7","8","9"}

DigitVal(c) ==
  CASE c = "0" -> 0 [] c = "1" -> 1 [] c = "2" -> 2 [] c = "3" -> 3
    [] c = "4" -> 4 [] c = "5" -> 5 [] c = "6" -> 6 [] c = "7" -> 7
    [] c = "8" -> 8 [] c = "9" -> 9

IsNumber(s) == Len(s) > 0 /\ \A k \in 1..Len(s) : s[k] \in Digits

RECURSIVE ParseInt(_)
ParseInt(s) ==
  IF s = <<>> THEN 0
  ELSE 10 * ParseInt(SubSeq(s, 1, Len(s) - 1)) + DigitVal(s[Len(s)])

\* Position of the first c in s at or after k; Len(s) + 1 when there is none.
Find(s, c, k) ==
  IF \E j \in k..Len(s) : s[j] = c
  THEN CHOOSE j \in k..Len(s) : s[j] = c /\ \A i \in k..(j - 1) : s[i] # c
  ELSE Len(s) + 1

\* s.split(sep)
RECURSIVE Split(_, _)
Split(s, sep) ==
  LET p == Find(s, sep, 1)
  IN  IF p > Len(s) THEN <<s>>
      ELSE <<SubSeq(s, 1, p - 1)>> \o Split(SubSeq(s, p + 1, Len(s)), sep)

\* s.rstrip(' ')
RStrip(s) ==
  IF \A k \in 1..Len(s) : s[k] = " " THEN <<>>
  ELSE SubSeq(s, 1, CHOOSE k \in 1..Len(s) :
                      s[k] # " " /\ \A j \in (k + 1)..Len(s) : s[j] = " ")

\* Terminal styling: fg and bg hold the SGR code in effect, 0 for the default.
Plain == [fg |-> 0, bg |-> 0]

FgCodes == (30..37) \cup (90..97)

BgCodes == (40..47) \cup (100..107)

ApplyParam(st, n) ==
  IF n = 0 THEN Plain
  ELSE IF n \in FgCodes THEN [st EXCEPT !.fg = n]
  ELSE IF n \in BgCodes THEN [st EXCEPT !.bg = n]
  ELSE st

RECURSIVE ApplyParams(_, _)
ApplyParams(st, ps) ==
  IF ps = <<>> THEN st
  ELSE ApplyParams(IF IsNumber(Head(ps)) THEN ApplyParam(st, ParseInt(Head(ps))) ELSE st,
                   Tail(ps))

\* The terminal reads s from position k on.  t.cells are the characters
\* shown so far with the styling each was shown in, t.style the active
\* styling, t.seqs the parameter strings of the control sequences read.
\* One step reads the text up to the next control sequence and then the
\* sequence; an ESC that starts no complete sequence is shown as text.
IsSeqStart(s, k) ==
  s[k] = ESC /\ k < Len(s) /\ s[k + 1] = "[" /\ \E j \in (k + 2)..Len(s) : s[j] = "m"

NextSeq(s, k) ==
  IF \E j \in k..Len(s) : IsSeqStart(s, j)
  THEN CHOOSE j \in k..Len(s) : IsSeqStart(s, j) /\ \A i \in k..(j - 1) : ~IsSeqStart(s, i)
  ELSE Len(s) + 1

Shown(s, from, to, st) ==
  [j \in 1..(to - from + 1) |-> [ch |-> s[from + j - 1], fg |-> st.fg, bg |-> st.bg]]

RECURSIVE Scan(_, _, _)
Scan(s, k, t) ==
  LET p == NextSeq(s, k)
      cells == t.cells \o Shown(s, k, p - 1, t.style)
  IN  IF p > Len(s) THEN [cells |-> cells, style |-> t.style, seqs |-> t.seqs]
      ELSE LET e == Find(s, "m", p + 2)
               params == SubSeq(s, p + 2, e - 1)
           IN  Scan(s, e + 1,
                    [cells |-> cells,
                     style |-> ApplyParams(t.style, Split(params, ";")),
                     seqs  |-> Append(t.seqs, params)])

\* What the terminal makes of one written string, starting unstyled.
Terminal(w) == Scan(w, 1, [cells |-> <<>>, style |-> Plain, seqs |-> <<>>])

IsStyled(c) == c.fg # 0 \/ c.bg # 0

Chars(cells) == [k \in 1..Len(cells) |-> cells[k].ch]

\* The characters shown styled, and the characters shown unstyled.
StyledText(w) == Chars(SelectSeq(Terminal(w).cells, IsStyled))

PlainText(w) == Chars(SelectSeq(Terminal(w).cells, LAMBDA c : ~IsStyled(c)))

EndsWith(s, suffix) ==
  Len(s) >= Len(suffix) /\ SubSeq(s, Len(s) - Len(suffix) + 1, Len(s)) = suffix

StartsWith(s, prefix) == Len(s) >= Len(prefix) /\ SubSeq(s, 1, Len(prefix)) = prefix

\* The strings written by the n-th invocation, so far.
Output(n) ==
  SubSeq(stdout, starts[n] + 1, IF n < Len(starts) THEN starts[n + 1] ELSE Len(stdout))

\* The n-th invocation has run to its end.
Completed(n) == n < calls \/ (n = calls /\ pc \in {"return", "idle"})

\* The strings written by the invocation that is running or ran last.
Current == IF calls = 0 THEN <<>> ELSE Output(calls)

\* The kind of a written string, told from its characters alone.
Kind(w) ==
  IF w = Rep("=", 80) \o <<NL>> THEN "banner"
  ELSE IF w = Rep("-", 40) \o <<NL>> THEN "rule"
  ELSE IF w = Title \o <<NL>> THEN "title"
  ELSE IF w = FgHeader \o <<NL>> THEN "fg_header"
  ELSE IF w = BgHeader \o <<NL>> THEN "bg_header"
  ELSE IF w = CombHeader \o <<NL>> THEN "comb_header"
  ELSE IF w = UsageHeader \o <<NL>> THEN "usage_header"
  ELSE IF w \in {Note1 \o <<NL>>, Note2 \o <<NL>>, Note3 \o <<NL>>} THEN "note"
  ELSE IF w[1] = ESC /\ EndsWith(w, ExampleText \o <<NL>>) THEN "row"
  ELSE "other"

\* The chart's layout: the kind of the k-th string of one invocation.
Layout(k) ==
  IF k \in {1, 3, 52} THEN "banner"
  ELSE IF k = 2 THEN "title"
  ELSE IF k = 4 THEN "fg_header"
  ELSE IF k \in {5, 23, 41, 48} THEN "rule"
  ELSE IF k \in 6..21 THEN "row"
  ELSE IF k = 22 THEN "bg_header"
  ELSE IF k \in 24..39 THEN "row"
  ELSE IF k = 40 THEN "comb_header"
  ELSE IF k \in 42..46 THEN "row"
  ELSE IF k = 47 THEN "usage_header"
  ELSE IF k \in 49..51 THEN "note"
  ELSE "nothing"

\* The rows of the three sections written so far by the current invocation.
FgRows == SubSeq(Current, 6, IF Len(Current) < 21 THEN Len(Current) ELSE 21)

BgRows == SubSeq(Current, 24, IF Len(Current) < 39 THEN Len(Current) ELSE 39)

CombRows == SubSeq(Current, 42, IF Len(Current) < 46 THEN Len(Current) ELSE 46)

\* C1: every invocation writes banner, title, banner, the foreground
\* section with 16 rows, the background section with 16 rows, the
\* combinations section with 5 rows, the usage section with three notes and
\* a closing banner, in this order and nothing else; the closing banner is
\* the last string an invocation that has ended wrote.
C1_OutputLayout ==
  /\ pc # "KeyError"
  /\ \A n \in 1..calls :
       LET o == Output(n)
       IN  /\ Len(o) <= 52
           /\ \A k \in 1..Len(o) : Kind(o[k]) = Layout(k)
           /\ Completed(n) => Len(o) = 52 /\ Kind(o[Len(o)]) = "banner"
           /\ (n = calls /\ Len(o) = 52) => pc \in {"return", "idle"}

C1_Witness == calls = 2 /\ pc = "return"

\* The declared order: the eight standard colors, then their Bright variants.
StdNames ==
  << <<"B","l","a","c","k">>, <<"R","e","d">>, <<"G","r","e","e","n">>,
     <<"Y","e","l","l","o","w">>, <<"B","l","u","e">>,
     <<"M","a","g","e","n","t","a">>, <<"C","y","a","n">>, <<"W","h","i","t","e">> >>

DeclaredNames ==
  StdNames \o [i \in 1..8 |-> <<"B","r","i","g","h","t"," ">> \o StdNames[i]]

\* Position of a name in the declared order, 0 for any other string.
DeclaredPos(name) ==
  IF \E i \in 1..16 : DeclaredNames[i] = name
  THEN CHOOSE i \in 1..16 : DeclaredNames[i] = name
  ELSE 0

\* The name a row shows: its styled characters without the padding.
RowName(w) == RStrip(StyledText(w))

\* The rows of a section are in the declared order: every row shows a
\* declared name, an earlier row shows an earlier-declared name, and a
\* section of 16 rows shows every declared name.
InDeclaredOrder(rows) ==
  LET pos == [k \in 1..Len(rows) |-> DeclaredPos(RowName(rows[k]))]
  IN  /\ \A k \in 1..Len(rows) : pos[k] \in 1..16
      /\ \A a, b \in 1..Len(rows) : a < b => pos[a] < pos[b]
      /\ Len(rows) = 16 => \A i \in 1..16 : Cardinality({k \in 1..16 : pos[k] = i}) = 1

\* C2: in the foreground section and in the background section the rows
\* are written in the declared order Black .. White, Bright Black ..
\* Bright White, and each name appears in exactly one row.
C2_DeclaredOrder ==
  /\ InDeclaredOrder(FgRows)
  /\ InDeclaredOrder(BgRows)

C2_Witness == pc = "return" /\ Len(FgRows) = 16 /\ Len(BgRows) = 16

\* The escape-sequence text column of a row: its unstyled text between the
\* separating space and " Example text".
TextColumn(w) ==
  LET p == PlainText(w)
  IN  SubSeq(p, 2, Len(p) - Len(ExampleText) - 1)

\* The code strings a row's text column shows between "[" and "m".
ShownCodes(w) ==
  LET col == TextColumn(w)
  IN  Split(SubSeq(col, Find(col, "[", 1) + 1, Find(col, "m", 1) - 1), ";")

\* A decimal numeral without sign or leading zero.
IsNumeral(s) == IsNumber(s) /\ s[1] # "0"

\* The reference table: the i-th declared name's codes.
RefFg(i) == IF i <= 8 THEN 30 + (i - 1) ELSE 90 + (i - 9)

RefBg(i) == IF i <= 8 THEN 40 + (i - 1) ELSE 100 + (i - 9)

\* C3: in every foreground row and every background row the code printed
\* for a name is the reference table's: 30+i / 40+i for the i-th standard
\* color (i = 0..7), 90+i / 100+i for its Bright variant; so foreground
\* codes lie in 30..37 or 90..97 and background codes in 40..47 or 100..107.
C3_ReferenceCodes ==
  /\ \A k \in 1..Len(FgRows) :
       LET w == FgRows[k]
           i == DeclaredPos(RowName(w))
           shown == ShownCodes(w)
       IN  /\ i \in 1..16
           /\ Len(shown) = 1 /\ IsNumeral(shown[1])
           /\ ParseInt(shown[1]) = RefFg(i)
           /\ ParseInt(shown[1]) \in FgCodes
           /\ Terminal(w).cells[1].fg = RefFg(i)
  /\ \A k \in 1..Len(BgRows) :
       LET w == BgRows[k]
           i == DeclaredPos(RowName(w))
           shown == ShownCodes(w)
       IN  /\ i \in 1..16
           /\ Len(shown) = 1 /\ IsNumeral(shown[1])
           /\ ParseInt(shown[1]) = RefBg(i)
           /\ ParseInt(shown[1]) \in BgCodes
           /\ Terminal(w).cells[1].bg = RefBg(i)

C3_Witness ==
  /\ Len(BgRows) = 16
  /\ RowName(FgRows[2]) = StdNames[2] /\ ShownCodes(FgRows[2]) = << <<"3","1">> >>
  /\ ShownCodes(BgRows[16]) = << <<"1","0","7">> >>

\* C4: every background row is written with text code 97 when its
\* background code is one of 40..46 or 100, and with text code 30 for any
\* other background code; no other text code accompanies a background row.
C4_ContrastRule ==
  \A k \in 1..Len(BgRows) :
    LET t == Terminal(BgRows[k])
        bg == t.cells[1].bg
    IN  /\ bg \in BgCodes
        /\ Len(t.seqs) = 3
        /\ IsNumeral(t.seqs[1]) /\ IsNumeral(t.seqs[2]) /\ t.seqs[3] = <<"0">>
        /\ ParseInt(t.seqs[2]) = bg
        /\ ParseInt(t.seqs[1]) = (IF bg \in (40..46) \cup {100} THEN 97 ELSE 30)
        /\ \A j \in 1..Len(t.cells) :
             IsStyled(t.cells[j]) => t.cells[j].fg = ParseInt(t.seqs[1]) /\ t.cells[j].bg = bg

C4_Witness ==
  /\ Len(BgRows) = 16
  /\ Terminal(BgRows[7]).cells[1].fg = 97
  /\ Terminal(BgRows[8]).cells[1].fg = 30
  /\ Terminal(BgRows[9]).cells[1].fg = 97
  /\ Terminal(BgRows[10]).cells[1].fg = 30

\* The rows written so far by the current invocation, of all three sections.
Rows == FgRows \o BgRows \o CombRows

Readable(params) == <<"\\", "0", "3", "3", "[">> \o params \o <<"m">>

\* C6: the text column of every row is backslash, 0, 3, 3, "[", the row's
\* code digits and "m" (fgcode ";" bgcode for a combination row) followed
\* only by spaces; the codes it shows are the ones of the row's styling
\* sequence; it holds no control byte, while the row starts with one.
C6_TextColumn ==
  /\ \A k \in 1..Len(Rows) :
       LET w == Rows[k]
           t == Terminal(w)
           col == TextColumn(w)
           emitted == t.seqs[Len(t.seqs) - 1]
       IN  /\ Len(t.seqs) >= 2
           /\ w[1] = ESC
           /\ \A j \in 1..Len(col) : col[j] # ESC
           /\ RStrip(col) = Readable(emitted)
           /\ \A j \in (Len(RStrip(col)) + 1)..Len(col) : col[j] = " "
  /\ \A k \in 1..Len(FgRows) :
       LET t == Terminal(FgRows[k])
       IN  /\ IsNumeral(t.seqs[Len(t.seqs) - 1])
           /\ t.cells[1].fg = ParseInt(ShownCodes(FgRows[k])[1])
  /\ \A k \in 1..Len(BgRows) :
       LET t == Terminal(BgRows[k])
       IN  /\ IsNumeral(t.seqs[Len(t.seqs) - 1])
           /\ t.cells[1].bg = ParseInt(ShownCodes(BgRows[k])[1])
  /\ \A k \in 1..Len(CombRows) :
       LET t == Terminal(CombRows[k])
           shown == ShownCodes(CombRows[k])
       IN  /\ Len(shown) = 2 /\ IsNumeral(shown[1]) /\ IsNumeral(shown[2])
           /\ t.cells[1].fg = ParseInt(shown[1])
           /\ t.cells[1].bg = ParseInt(shown[2])

C6_Witness ==
  /\ Len(Rows) = 37
  /\ TextColumn(FgRows[2]) = <<"\\","0","3","3","[","3","1","m"," "," ">>
  /\ RStrip(TextColumn(CombRows[1])) = <<"\\","0","3","3","[","9","7",";","4","4","m">>

\* The declared combinations, as positions in the declared order:
\* (Bright White, Blue), (Yellow, Bright Black), (Bright Cyan, Magenta),
\* (Bright Red, Bright Yellow), (Black, Bright White).
DeclaredCombinations == << <<16, 5>>, <<4, 9>>, <<15, 6>>, <<10, 12>>, <<1, 16>> >>

\* C7: the combinations section has exactly five rows, in the declared
\* order; both names of every pair are keys of their tables, so no lookup
\* fails; each row's styling sequence is fgcode;bgcode with the foreground
\* table's code of the first name and the background table's of the second.
C7_Combinations ==
  /\ pc # "KeyError"
  /\ Len(CombRows) <= 5
  /\ Len(Current) > 46 => Len(CombRows) = 5 /\ Kind(Current[47]) = "usage_header"
  /\ \A k \in 1..Len(combinations) :
       HasKey(fg_colors, combinations[k][1]) /\ HasKey(bg_colors, combinations[k][2])
  /\ \A k \in 1..Len(CombRows) :
       LET w == CombRows[k]
           t == Terminal(w)
           f == DeclaredCombinations[k][1]
           b == DeclaredCombinations[k][2]
           codes == Split(t.seqs[1], ";")
       IN  /\ RowName(w) = DeclaredNames[f] \o <<" ","o","n"," ">> \o DeclaredNames[b]
           /\ Len(t.seqs) = 2
           /\ Len(codes) = 2 /\ IsNumeral(codes[1]) /\ IsNumeral(codes[2])
           /\ ParseInt(codes[1]) = RefFg(f)
           /\ ParseInt(codes[2]) = RefBg(b)
           /\ t.cells[1].fg = RefFg(f) /\ t.cells[1].bg = RefBg(b)

C7_Witness ==
  /\ pc = "return" /\ Len(CombRows) = 5
  /\ Terminal(CombRows[4]).seqs[1] = <<"9","1",";","1","0","3">>

\* C8: every invocation writes the same bytes as the first: the output of
\* an invocation that has ended equals the first one's, the output of the
\* running one is a prefix of it, and while an invocation runs its tables
\* are the ones the literals built.
C8_Idempotent ==
  /\ \A n \in 1..calls :
       /\ Completed(n) => Output(n) = Output(1)
       /\ Completed(1) => StartsWith(Output(1), Output(n))
  /\ pc # "idle" => fg_colors = FgColors /\ bg_colors = BgColors
  /\ pc \notin {"idle", "banner", "title", "title_rule", "fg_header", "fg_rule",
                "fg_loop", "bg_rule", "bg_loop", "comb_rule", "comb_list"}
       => combinations = Combinations

C8_Witness == calls >= 2 /\ pc = "idle" /\ Output(2) = Output(1) /\ Len(Output(2)) = 52

\* C9: in every row the sample text "Example text" is shown while the
\* row's color styling is active.
C9_ExampleTextStyled ==
  \A k \in 1..Len(Rows) :
    LET t == Terminal(Rows[k])
        n == Len(t.cells)
    IN  \A j \in (n - 12)..(n - 1) :
          t.cells[j].fg = t.cells[1].fg /\ t.cells[j].bg = t.cells[1].bg

\* Visible offset at which "Example text" starts in a row.
ExampleOffset(w) == Len(Terminal(w).cells) - 12

\* C10: in the 32 foreground and background rows the styled name column is
\* 15 characters and the text column 10, no name or sequence text being
\* longer, so "Example text" starts at the same offset in all of them; in a
\* combination row only the background name is padded to 25, so the styled
\* label is len(foreground name) + 4 + 25 long and "Example text" does not
\* start at one offset in all five rows.
C10_ColumnWidths ==
  /\ \A k \in 1..Len(FgRows \o BgRows) :
       LET w == (FgRows \o BgRows)[k]
       IN  /\ Len(StyledText(w)) = 15
           /\ Len(TextColumn(w)) = 10
           /\ Len(RowName(w)) <= 15
           /\ Len(RStrip(TextColumn(w))) <= 10
           /\ ExampleOffset(w) = 28
  /\ \A k \in 1..Len(CombRows) :
       LET w == CombRows[k]
           f == DeclaredNames[DeclaredCombinations[k][1]]
       IN  /\ Len(StyledText(w)) = Len(f) + 4 + 25
           /\ ExampleOffset(w) = Len(f) + 4 + 25 + 1 + 15 + 2
  /\ Len(CombRows) = 5 =>
       \E a, b \in 1..5 : ExampleOffset(CombRows[a]) # ExampleOffset(CombRows[b])

C10_Witness ==
  /\ Len(FgRows \o BgRows) = 32 /\ Len(CombRows) = 5
  /\ ExampleOffset(CombRows[1]) = 59
  /\ ExampleOffset(CombRows[5]) = 52

=============================================================================
